---- MODULE Spec2Model ----
(***************************************************************************)
(* Model of main.py of gold-forecast-bot: the price acquisition            *)
(* get_gold_price (four HTTP sources tried in order), the signal routine   *)
(* create_signal_and_maybe_alert, the daily report and the run_bot loop.   *)
(*                                                                         *)
(* Prices are whole US dollars.  Confidences are hundredths of a percent   *)
(* point (8000 = 80.00), the precision main.py rounds them to.             *)
(***************************************************************************)
EXTENDS Integers, Sequences, FiniteSets, TLC

VARIABLES
    resp,       \* the frozen HTTP responses of the four price sources
    idx,        \* get_gold_price: position in Order of the block to run next
    pc,         \* get_gold_price: "idle" | "run" | "done"
    ret,        \* get_gold_price: the value returned by the last pass
    raised,     \* get_gold_price: an exception left the function
    failed,     \* get_gold_price: sources whose except handler printed a failure
    bound,      \* names main.py uses without binding them that its namespace holds
    sigPc,      \* create_signal_and_maybe_alert: position in the function
    sPrice,     \* create_signal_and_maybe_alert: price
    finalConf,  \* create_signal_and_maybe_alert: final_conf, in hundredths
    direction,  \* create_signal_and_maybe_alert: direction
    recorded,   \* record_signal appended the signal to history.csv
    alert,      \* the alert embed: "none" | "sent" | "senderr"
    ping,       \* the alert embed was sent with @everyone
    sigExc,     \* the exception that left create_signal_and_maybe_alert
    botPc,      \* run_bot: position in the program
    now,        \* the Asia/Karachi clock, in hours since midnight of the start date
    last_daily_date,  \* run_bot: last_daily_date, as days since the start date
    reportLog,  \* the daily reports the loop handed to Discord: <<[t, ok]>>
    history     \* history.csv: closed rows counted by outcome, open rows in file order

priceVars == <<resp, idx, pc, ret, raised, failed>>
sigVars == <<sigPc, sPrice, finalConf, direction, recorded, alert, ping, sigExc>>
botVars == <<botPc, now, last_daily_date, reportLog>>
vars == <<priceVars, bound, sigVars, botVars, history>>

-----------------------------------------------------------------------------
(* Bounds of the model *)

\* longest JSON list answered by metals.live
MaxItems == 2
\* most signals with a known outcome in history.csv
MaxOutcomes == 4
\* last day of the run, counted from the start date
MaxDay == 1
\* most hours that pass between two iterations of the loop
MaxJump == 2
\* most signals without an outcome in history.csv
MaxOpen == 3
\* most signals recorded by calls of create_signal_and_maybe_alert on its own
MaxCalls == 1

-----------------------------------------------------------------------------
(* Values *)

\* Python None and a Python float, as the result of get_gold_price
None == [some |-> FALSE, v |-> 0]
Float(x) == [some |-> TRUE, v |-> x]

\* prices a source may quote: negative, zero, and two plausible ones
Vals == {-5, 0, 2410, 2412}

\* a JSON value found where the price is expected
Num(x) == [t |-> "num", v |-> x]
NumStr(x) == [t |-> "numstr", v |-> x]
BadStr == [t |-> "str", v |-> 0]
Null == [t |-> "null", v |-> 0]
FieldVals == {Num(x) : x \in Vals} \cup {NumStr(2410), BadStr, Null}

\* float(x): a JSON number or a numeric string converts, anything else raises
float(f) ==
    CASE f.t = "num" -> [ok |-> TRUE, v |-> f.v, exc |-> "none"]
      [] f.t = "numstr" -> [ok |-> TRUE, v |-> f.v, exc |-> "none"]
      [] f.t = "str" -> [ok |-> FALSE, v |-> 0, exc |-> "ValueError"]
      [] OTHER -> [ok |-> FALSE, v |-> 0, exc |-> "TypeError"]

\* what one try-block of get_gold_price comes to
Return(x) == [o |-> "return", v |-> x, exc |-> "none"]
Except(e) == [o |-> "except", v |-> 0, exc |-> e]
Fall == [o |-> "fall", v |-> 0, exc |-> "none"]

FromFloat(c) == IF c.ok THEN Return(c.v) ELSE Except(c.exc)

-----------------------------------------------------------------------------
(* The responses of the sources *)

\* Yahoo: chart.result[0].meta.regularMarketPrice
YahooResponses ==
    {[k |-> kk, f |-> Null] : kk \in {"neterr", "badjson", "nofield"}}
        \cup {[k |-> "field", f |-> ff] : ff \in FieldVals}

\* metals.live: a JSON list of dicts, one of which may hold "gold"
MetalsEntries ==
    {[gold |-> FALSE, f |-> Null]}
        \cup {[gold |-> TRUE, f |-> ff] : ff \in {Num(0), Num(2410), Num(2412), BadStr}}
MetalsLists == UNION {[1..n -> MetalsEntries] : n \in 0..MaxItems}
MetalsResponses ==
    {[k |-> kk, items |-> <<>>] : kk \in {"neterr", "badjson", "notlist"}}
        \cup {[k |-> "list", items |-> l] : l \in MetalsLists}

\* goldprice.org: {"items": [{"xauPrice": ...}]}
GoldpriceResponses ==
    {[k |-> kk, f |-> Null] :
        kk \in {"neterr", "badjson", "nondict", "noitems", "nofield"}}
        \cup {[k |-> "field", f |-> ff] : ff \in FieldVals}

\* GoldAPI: {"price": ...}
GoldapiResponses ==
    {[k |-> kk, f |-> Null] : kk \in {"neterr", "badjson", "noprice"}}
        \cup {[k |-> "field", f |-> ff] : ff \in FieldVals}

Responses ==
    [yahoo : YahooResponses, metals : MetalsResponses,
     goldprice : GoldpriceResponses, goldapi : GoldapiResponses]

-----------------------------------------------------------------------------
(* The four try-blocks of get_gold_price *)

Yahoo(r) ==
    CASE r.k = "neterr" -> Except("RequestException")
      [] r.k = "badjson" -> Except("ValueError")
      [] r.k = "nofield" -> Except("KeyError")
      [] OTHER -> FromFloat(float(r.f))

\* the first dict of the list that holds "gold" decides
RECURSIVE MetalsScan(_, _)
MetalsScan(items, i) ==
    IF i > Len(items) THEN Fall
    ELSE IF items[i].gold THEN FromFloat(float(items[i].f))
    ELSE MetalsScan(items, i + 1)

MetalsLive(r) ==
    CASE r.k = "neterr" -> Except("RequestException")
      [] r.k = "badjson" -> Except("ValueError")
      [] r.k = "notlist" -> Fall
      [] OTHER -> MetalsScan(r.items, 1)

Goldprice(r) ==
    CASE r.k = "neterr" -> Except("RequestException")
      [] r.k = "badjson" -> Except("ValueError")
      [] r.k = "nondict" -> Except("TypeError")
      [] r.k = "noitems" -> Fall
      [] r.k = "nofield" -> Except("KeyError")
      [] OTHER -> FromFloat(float(r.f))

GoldApi(r) ==
    CASE r.k = "neterr" -> Except("RequestException")
      [] r.k = "badjson" -> Except("ValueError")
      [] r.k = "noprice" -> Fall
      [] OTHER -> FromFloat(float(r.f))

Sources == {"yahoo", "metals", "goldprice", "goldapi"}

Block(s, r) ==
    CASE s = "yahoo" -> Yahoo(r.yahoo)
      [] s = "metals" -> MetalsLive(r.metals)
      [] s = "goldprice" -> Goldprice(r.goldprice)
      [] OTHER -> GoldApi(r.goldapi)

\* the exceptions the blocks can raise; all derive from Exception
ExcKinds == {"RequestException", "ValueError", "KeyError", "TypeError"}

OnlyRequestsErrors == {"RequestException"}
\* "except Exception as e" of each block
CaughtByExcept == ExcKinds

RotatedOrder == <<"metals", "yahoo", "goldprice", "goldapi">>
\* the order of the blocks in the body of get_gold_price
Order == <<"yahoo", "metals", "goldprice", "goldapi">>

DefaultPrice == Float(2410)
\* the last statement, reached when no block returned
FallThroughResult == None

\* every call starts at the first block
FirstIndex == 1

\* get_gold_price as a function of the responses
RECURSIVE PriceFrom(_, _)
PriceFrom(r, i) ==
    IF i > Len(Order) THEN FallThroughResult
    ELSE LET o == Block(Order[i], r)
         IN  IF o.o = "return" THEN Float(o.v) ELSE PriceFrom(r, i + 1)

get_gold_price(r) == PriceFrom(r, FirstIndex)

-----------------------------------------------------------------------------
(* get_gold_price, block by block *)

PriceIdle ==
    /\ idx = Len(Order) + 1
    /\ pc = "idle"
    /\ ret = None
    /\ raised = FALSE
    /\ failed = {}

\* a call of get_gold_price; the responses stay as they are
StartPass ==
    /\ pc \in {"idle", "done"}
    /\ ~raised
    /\ idx' = FirstIndex
    /\ pc' = "run"
    /\ ret' = None
    /\ failed' = {}
    /\ UNCHANGED <<resp, raised, bound, sigVars, botVars, history>>

\* one try/except block: return the price, or note the failure and go on
TryBlock(s) ==
    /\ pc = "run"
    /\ idx <= Len(Order)
    /\ Order[idx] = s
    /\ LET o == Block(s, resp)
       IN  CASE o.o = "return" ->
                  /\ ret' = Float(o.v)
                  /\ pc' = "done"
                  /\ UNCHANGED <<idx, raised, failed>>
             [] o.o = "except" /\ o.exc \in CaughtByExcept ->
                  /\ failed' = failed \cup {s}
                  /\ idx' = idx + 1
                  /\ UNCHANGED <<pc, ret, raised>>
             [] o.o = "except" /\ o.exc \notin CaughtByExcept ->
                  /\ raised' = TRUE
                  /\ pc' = "done"
                  /\ UNCHANGED <<idx, ret, failed>>
             [] OTHER ->
                  /\ idx' = idx + 1
                  /\ UNCHANGED <<pc, ret, raised, failed>>
    /\ UNCHANGED <<resp, bound, sigVars, botVars, history>>

TryYahoo == TryBlock("yahoo")
TryMetals == TryBlock("metals")
TryGoldprice == TryBlock("goldprice")
TryGoldapi == TryBlock("goldapi")

\* no block returned
ReturnNone ==
    /\ pc = "run"
    /\ idx > Len(Order)
    /\ ret' = FallThroughResult
    /\ pc' = "done"
    /\ UNCHANGED <<resp, idx, raised, failed, bound, sigVars, botVars, history>>

-----------------------------------------------------------------------------
(* Names main.py uses and never binds *)

\* SyncWebhook (module level, line 62), Embed (send_embed) and get_zones
\* (create_signal_and_maybe_alert) are neither imported nor defined in
\* main.py: evaluating one raises NameError unless the namespace the module
\* runs in holds it.  Which of them it holds is fixed for a run; the file run
\* on its own holds none.
FreeNames == {"SyncWebhook", "Embed", "get_zones"}

-----------------------------------------------------------------------------
(* Inputs of the signal routine *)

AllFail ==
    [yahoo |-> [k |-> "neterr", f |-> Null],
     metals |-> [k |-> "notlist", items |-> <<>>],
     goldprice |-> [k |-> "noitems", f |-> Null],
     goldapi |-> [k |-> "badjson", f |-> Null]]

\* the answers of the price sources to one call made by the bot
PassResponses ==
    {AllFail,
     [AllFail EXCEPT !.yahoo = [k |-> "field", f |-> Num(2410)]],
     [AllFail EXCEPT !.metals =
         [k |-> "list", items |-> <<[gold |-> TRUE, f |-> Num(2412)]>>]],
     [AllFail EXCEPT !.yahoo = [k |-> "field", f |-> BadStr],
                     !.goldapi = [k |-> "field", f |-> Num(-5)]]}

\* fetch_yahoo_history: None, an empty frame, a frame the indicators cannot
\* be computed on, or a frame with: ema20 > ema50 (up), the same of the two
\* rounded to cents (upr), the RSI and the ATR in dollars
Hists ==
    {[k |-> kk, up |-> FALSE, upr |-> FALSE, rsi |-> 50, atr |-> 3] :
        kk \in {"none", "empty", "bad"}}
        \cup {h \in [k : {"ok"}, up : BOOLEAN, upr : BOOLEAN,
                     rsi : {25, 50, 75}, atr : {3, 8}] : h.upr => h.up}

\* scores of the model, in hundredths
ScorePcts == {0, 50, 90, 100}

\* hf_sentiment: (label, score); the label by what the routine reads in it
HfResults ==
    [label : {"pos", "neg", "neutral"}, score : ScorePcts]
        \cup {[label |-> "None", score |-> 0], [label |-> "neutral", score |-> 50]}

\* wins and total of the rows of history.csv that have an outcome
Perfs == {p \in [wins : 0..MaxOutcomes, total : 0..MaxOutcomes] : p.wins <= p.total}

\* history.csv when the program starts: ensure_history_file keeps a file
\* that exists, so rows closed by an earlier run may be there
StartHistories ==
    {[wins |-> p.wins, losses |-> p.total - p.wins, open |-> <<>>] : p \in Perfs}

EmptyHistory == [wins |-> 0, losses |-> 0, open |-> <<>>]

\* the files run_bot is started on: none, or three closed rows that all lost
\* or all won
BotStartHistories ==
    {h \in StartHistories : h.wins + h.losses \in {0, 3} /\ h.wins \in {0, 3}}

-----------------------------------------------------------------------------
(* Confidence *)

MODEL_WEIGHT == 60
INDICATOR_WEIGHT == 40
ALERT_THRESHOLD == 80
PING_THRESHOLD == 90

Clip(lo, hi, x) == IF x < lo THEN lo ELSE IF x > hi THEN hi ELSE x

\* n / d rounded to the nearest integer (n >= 0, d > 0)
RoundDiv(n, d) == (2 * n + d) \div (2 * d)

\* score and whether indicator_details is filled
compute_indicator_confluence(h) ==
    IF h.k = "bad" THEN [score |-> 50, details |-> FALSE]
    ELSE LET trend == IF h.up THEN 20 ELSE -10
             strength == IF h.rsi < 30 THEN 20 ELSE IF h.rsi > 70 THEN -15 ELSE 0
             vol == IF h.atr > 5 THEN -5 ELSE 0
         IN  [score |-> Clip(0, 100, 50 + trend + strength + vol), details |-> TRUE]

\* lines 333-339: no history, no indicators
IndicatorsOf(h) ==
    IF h.k \in {"none", "empty"} THEN [score |-> 50, details |-> FALSE]
    ELSE compute_indicator_confluence(h)

\* model score (hundredths of 1) and indicator score (0..100) to hundredths
\* of a percent point
combine_confidence(score, ind) == MODEL_WEIGHT * score + INDICATOR_WEIGHT * ind

\* the rows with an outcome; win_rate in hundredths of a percent
historical_performance_summary(h) ==
    LET total == h.wins + h.losses
    IN  [wins |-> h.wins, total |-> total,
         win_rate |-> IF total > 0 THEN RoundDiv(h.wins * 10000, total) ELSE 0]

OUTCOME_HORIZON_MIN == 60 * 6
\* the horizon on the clock of the model, which counts hours
HorizonHours == OUTCOME_HORIZON_MIN \div 60

\* record_signal: a row without outcome, written at this moment (age 0); the
\* signal name and the confidence of the row are read nowhere
NewRow(entry, dir) == [age |-> 0, entry |-> entry, direction |-> dir]

\* the rows d hours later; from the horizon on a row is due, whatever its age
Aged(h, d) ==
    IF h.open = <<>> THEN h
    ELSE [h EXCEPT !.open =
            [i \in DOMAIN h.open |->
                [h.open[i] EXCEPT !.age =
                    IF @ + d > HorizonHours THEN HorizonHours ELSE @ + d]]]

\* lines 288-299: buy wins on a rise of 0.5 % over the entry, anything else
\* wins on a fall of 0.5 %
Outcome(row, current_price) ==
    IF row.direction = "buy"
    THEN (IF 1000 * current_price >= 1005 * row.entry THEN "win" ELSE "loss")
    ELSE (IF 1000 * current_price <= 995 * row.entry THEN "win" ELSE "loss")

\* the loop of evaluate_past_signals from row i on; f[i] is what the sources
\* answer to the get_gold_price call made for row i
RECURSIVE EvaluateFrom(_, _, _, _, _, _)
EvaluateFrom(open, f, i, wins, losses, kept) ==
    IF i > Len(open) THEN [wins |-> wins, losses |-> losses, open |-> kept]
    ELSE LET row == open[i]
             current_price == get_gold_price(f[i])
         IN  IF row.age < HorizonHours \/ current_price = None
             THEN EvaluateFrom(open, f, i + 1, wins, losses, Append(kept, row))
             ELSE IF Outcome(row, current_price.v) = "win"
             THEN EvaluateFrom(open, f, i + 1, wins + 1, losses, kept)
             ELSE EvaluateFrom(open, f, i + 1, wins, losses + 1, kept)

\* history.csv after evaluate_past_signals
evaluate_past_signals(h, f) == EvaluateFrom(h.open, f, 1, h.wins, h.losses, <<>>)

\* lines 367-373
AdjustForHistory(conf, perf) ==
    IF perf.total >= 3
    THEN LET c == IF perf.win_rate < 5000 THEN RoundDiv(conf * 95, 100)
                  ELSE IF perf.win_rate > 6000 THEN RoundDiv(conf * 103, 100)
                  ELSE conf
         IN  IF c > 10000 THEN 10000 ELSE c
    ELSE conf

\* lines 354-359 and 376-381; the rounded EMAs of a filled
\* indicator_details are prices, hence nonzero
DirectionOf(label, h, ind) ==
    CASE label = "pos" -> "buy"
      [] label = "neg" -> "sell"
      [] OTHER -> IF ind.details
                  THEN (IF h.upr THEN "buy" ELSE "sell")
                  ELSE (IF ind.score >= 55 THEN "buy" ELSE "sell")

GateInverted(conf) == conf < ALERT_THRESHOLD * 100
\* line 404
ShouldAlert(conf) == conf >= ALERT_THRESHOLD * 100

\* line 405
PingEveryone(conf) == conf >= PING_THRESHOLD * 100

-----------------------------------------------------------------------------
(* create_signal_and_maybe_alert, step by step *)

SignalIdle ==
    /\ sigPc = "idle"
    /\ sPrice = None
    /\ finalConf = 0
    /\ direction = "none"
    /\ recorded = FALSE
    /\ alert = "none"
    /\ ping = FALSE
    /\ sigExc = "none"

\* the locals of a call that is about to start
SignalEnter ==
    /\ sigPc' = "called"
    /\ sPrice' = None
    /\ finalConf' = 0
    /\ direction' = "none"
    /\ recorded' = FALSE
    /\ alert' = "none"
    /\ ping' = FALSE
    /\ sigExc' = "none"

\* the call is over and its frame is gone
SignalLeave ==
    /\ sigPc' = "idle"
    /\ sPrice' = None
    /\ finalConf' = 0
    /\ direction' = "none"
    /\ recorded' = FALSE
    /\ alert' = "none"
    /\ ping' = FALSE
    /\ sigExc' = "none"

\* lines 328-381: the price, or return without one; then the indicators, the
\* model, the confidence and the direction
SignalScoreOn(R, H, M) ==
    /\ sigPc = "called"
    /\ \E r \in R, h \in H, m \in M :
          LET price == get_gold_price(r)
              ind == IndicatorsOf(h)
              perf == historical_performance_summary(history)
          IN  IF price = None
              THEN /\ sigPc' = "returned"
                   /\ UNCHANGED <<sPrice, finalConf, direction>>
              ELSE /\ Len(history.open) < MaxOpen
                   /\ sPrice' = price
                   /\ finalConf' =
                        AdjustForHistory(combine_confidence(m.score, ind.score), perf)
                   /\ direction' = DirectionOf(m.label, h, ind)
                   /\ sigPc' = "scored"
    /\ UNCHANGED <<recorded, alert, ping, sigExc>>
    /\ UNCHANGED <<priceVars, bound, botVars, history>>

SignalScore == SignalScoreOn(PassResponses, Hists, HfResults)

\* lines 384-386: record_signal
SignalRecord ==
    /\ sigPc = "scored"
    /\ recorded' = TRUE
    /\ history' = [history EXCEPT !.open = Append(@, NewRow(sPrice.v, direction))]
    /\ sigPc' = "recorded"
    /\ UNCHANGED <<sPrice, finalConf, direction, alert, ping, sigExc>>
    /\ UNCHANGED <<priceVars, bound, botVars>>

\* line 389: get_zones(price)
SignalZones ==
    /\ sigPc = "recorded"
    /\ IF "get_zones" \in bound
       THEN sigPc' = "zoned" /\ UNCHANGED sigExc
       ELSE sigPc' = "raised" /\ sigExc' = "NameError"
    /\ UNCHANGED <<sPrice, finalConf, direction, recorded, alert, ping>>
    /\ UNCHANGED <<priceVars, bound, botVars, history>>

\* send_embed: Embed(...), then webhook.send inside try/except
send_embed(sendOk) ==
    IF "Embed" \notin bound THEN [o |-> "raised", exc |-> "NameError"]
    ELSE IF sendOk THEN [o |-> "sent", exc |-> "none"]
    ELSE [o |-> "senderr", exc |-> "none"]

\* lines 403-413
SignalGate ==
    /\ sigPc = "zoned"
    /\ IF ShouldAlert(finalConf)
       THEN \E sendOk \in BOOLEAN :
               LET e == send_embed(sendOk)
               IN  IF e.o = "raised"
                   THEN /\ sigPc' = "raised"
                        /\ sigExc' = e.exc
                        /\ UNCHANGED <<alert, ping>>
                   ELSE /\ alert' = e.o
                        /\ ping' = PingEveryone(finalConf)
                        /\ sigPc' = "returned"
                        /\ UNCHANGED sigExc
       ELSE /\ sigPc' = "returned"
            /\ UNCHANGED <<alert, ping, sigExc>>
    /\ UNCHANGED <<sPrice, finalConf, direction, recorded>>
    /\ UNCHANGED <<priceVars, bound, botVars, history>>

\* create_signal_and_maybe_alert() called on its own
CallSignal ==
    /\ sigPc \in {"idle", "returned", "raised"}
    /\ "SyncWebhook" \in bound
    /\ Len(history.open) < MaxCalls
    /\ SignalEnter
    /\ UNCHANGED <<priceVars, bound, botVars, history>>

-----------------------------------------------------------------------------
(* send_daily_report and run_bot *)

DAILY_HOUR == 8

Date(t) == t \div 24
Hour(t) == t % 24

\* the history frames the report meets, and what the loop's signal meets
ReportHists == {h \in Hists : h.k \in {"none", "empty"} \/ (h.up /\ h.upr /\ h.rsi = 50 /\ h.atr = 3)}
LoopHists == {h \in Hists : h.k = "none"}
LoopHf == {m \in HfResults : m.label = "pos" /\ m.score \in {50, 100}}

\* the answers of the sources to the signal step of the loop, and to the
\* price calls of evaluate_past_signals: no price, or one and the same price
\* throughout the run
LoopResponses ==
    {AllFail, [AllFail EXCEPT !.yahoo = [k |-> "field", f |-> Num(2410)]]}
EvalResponses == LoopResponses

\* lines 416-435: the close of an empty frame raises IndexError, a price of
\* None cannot be formatted with :.2f, then send_embed
send_daily_report(r, h, sendOk) ==
    LET price == get_gold_price(r)
    IN  IF h.k = "empty" THEN [o |-> "raised", exc |-> "IndexError"]
        ELSE IF price = None THEN [o |-> "raised", exc |-> "TypeError"]
        ELSE send_embed(sendOk)

BotIdle ==
    /\ botPc = "import"
    /\ last_daily_date = -1
    /\ reportLog = <<>>

\* the module body: line 62 needs SyncWebhook
ImportModule ==
    /\ botPc = "import"
    /\ botPc' = IF "SyncWebhook" \in bound THEN "start" ELSE "crashed"
    /\ UNCHANGED <<now, last_daily_date, reportLog>>
    /\ UNCHANGED <<priceVars, bound, sigVars, history>>

\* lines 439-446: the report at start, its exceptions printed
InitialReport ==
    /\ botPc = "start"
    /\ \E r \in PassResponses, h \in ReportHists, sendOk \in BOOLEAN :
          send_daily_report(r, h, sendOk).o \in {"sent", "senderr", "raised"}
    /\ last_daily_date' = Date(now)
    /\ botPc' = "loop"
    /\ UNCHANGED <<now, reportLog>>
    /\ UNCHANGED <<priceVars, bound, sigVars, history>>

\* lines 449-454: evaluate_past_signals closes the rows that are due, one
\* get_gold_price call for each; then the call of
\* create_signal_and_maybe_alert
LoopSignal ==
    /\ botPc = "loop"
    /\ \E f \in [DOMAIN history.open -> EvalResponses] :
          LET h == evaluate_past_signals(history, f)
          IN  /\ h.wins + h.losses <= MaxOutcomes
              /\ history' = h
    /\ SignalEnter
    /\ botPc' = "signal"
    /\ UNCHANGED <<now, last_daily_date, reportLog>>
    /\ UNCHANGED <<priceVars, bound>>

LoopSignalScore ==
    /\ botPc = "signal"
    /\ SignalScoreOn(LoopResponses, LoopHists, LoopHf)

\* lines 456-466: an exception of the signal step goes to the handler of the
\* loop; otherwise the daily report check
LoopCheck ==
    /\ botPc = "signal"
    /\ sigPc \in {"returned", "raised"}
    /\ IF sigPc = "returned" /\ Hour(now) = DAILY_HOUR /\ Date(now) # last_daily_date
       THEN /\ \E r \in PassResponses, h \in ReportHists, sendOk \in BOOLEAN :
                  LET e == send_daily_report(r, h, sendOk)
                  IN  reportLog' =
                        IF e.o = "raised" THEN reportLog
                        ELSE Append(reportLog, [t |-> now, ok |-> e.o = "sent"])
            /\ last_daily_date' = Date(now)
       ELSE UNCHANGED <<last_daily_date, reportLog>>
    /\ botPc' = "sleep"
    /\ SignalLeave
    /\ UNCHANGED now
    /\ UNCHANGED <<priceVars, bound, history>>

\* line 467: time.sleep; the clock moves on
LoopSleep ==
    /\ botPc = "sleep"
    /\ \E d \in 0..MaxJump :
          /\ now + d < 24 * (MaxDay + 1)
          /\ now' = now + d
          /\ history' = Aged(history, d)
    /\ botPc' = "loop"
    /\ UNCHANGED <<last_daily_date, reportLog>>
    /\ UNCHANGED <<priceVars, bound, sigVars>>

-----------------------------------------------------------------------------
(* Specifications *)

\* passes of get_gold_price on frozen responses
Init ==
    /\ resp \in Responses
    /\ PriceIdle
    /\ bound = {}
    /\ SignalIdle
    /\ BotIdle
    /\ now = 0
    /\ history = EmptyHistory

Next ==
    \/ StartPass
    \/ TryYahoo
    \/ TryMetals
    \/ TryGoldprice
    \/ TryGoldapi
    \/ ReturnNone

Spec == Init /\ [][Next]_vars

\* calls of create_signal_and_maybe_alert
InitSignal ==
    /\ resp = AllFail
    /\ PriceIdle
    /\ bound \in SUBSET FreeNames
    /\ SignalIdle
    /\ BotIdle
    /\ now = 0
    /\ history \in StartHistories

NextSignal ==
    \/ CallSignal
    \/ SignalScore
    \/ SignalRecord
    \/ SignalZones
    \/ SignalGate

SpecSignal == InitSignal /\ [][NextSignal]_vars

\* python main.py, started at any hour of the start date
InitBot ==
    /\ resp = AllFail
    /\ PriceIdle
    /\ bound \in SUBSET FreeNames
    /\ SignalIdle
    /\ BotIdle
    /\ now \in 0..23
    /\ history \in BotStartHistories

NextBot ==
    \/ ImportModule
    \/ InitialReport
    \/ LoopSignal
    \/ LoopSignalScore
    \/ SignalRecord
    \/ SignalZones
    \/ SignalGate
    \/ LoopCheck
    \/ LoopSleep

SpecBot == InitBot /\ [][NextBot]_vars

-----------------------------------------------------------------------------
(* What the sources of a pass came to, read off the frozen responses *)

Delivered(s) == Block(s, resp).o = "return"
Quote(s) == Block(s, resp).v
Valid(s) == Delivered(s) /\ Quote(s) > 0
Threw(s) == Block(s, resp).o = "except"

\* the place of a source in PRICE_SOURCES
Rank(s) ==
    CASE s = "yahoo" -> 1
      [] s = "metals" -> 2
      [] s = "goldprice" -> 3
      [] OTHER -> 4

FirstDelivering(s) ==
    /\ Delivered(s)
    /\ \A t \in Sources : Rank(t) < Rank(s) => ~Delivered(t)

ValidSources == {s \in Sources : Valid(s)}

\* the lower of the two middle values of the valid quotes (the middle one
\* when their number is odd)
LowerMedian(S) ==
    LET k == (Cardinality(S) + 1) \div 2
    IN  CHOOSE m \in {Quote(s) : s \in S} :
            /\ Cardinality({s \in S : Quote(s) < m}) < k
            /\ Cardinality({s \in S : Quote(s) <= m}) >= k

\* a failing response put in the place of every response that quotes a
\* price that is not strictly positive
DiscardInvalid(r) ==
    [yahoo |-> IF Yahoo(r.yahoo).o = "return" /\ Yahoo(r.yahoo).v <= 0
                 THEN [k |-> "neterr", f |-> Null] ELSE r.yahoo,
     metals |-> IF MetalsLive(r.metals).o = "return" /\ MetalsLive(r.metals).v <= 0
                  THEN [k |-> "neterr", items |-> <<>>] ELSE r.metals,
     goldprice |-> IF Goldprice(r.goldprice).o = "return" /\ Goldprice(r.goldprice).v <= 0
                     THEN [k |-> "neterr", f |-> Null] ELSE r.goldprice,
     goldapi |-> IF GoldApi(r.goldapi).o = "return" /\ GoldApi(r.goldapi).v <= 0
                   THEN [k |-> "neterr", f |-> Null] ELSE r.goldapi]

-----------------------------------------------------------------------------
(* Claims about get_gold_price *)

\* C1: a finished pass returns None exactly when none of the four sources
\* delivered a price; with all four failing it never returns a default or
\* made-up price.
C1_EmptyResult ==
    pc = "done" => ((\A s \in Sources : ~Delivered(s)) <=> ret = None)

\* all four sources failed, some by an exception and some by an answer
\* without a price, and the pass returned None
C1_Witness ==
    /\ pc = "done"
    /\ \A s \in Sources : ~Delivered(s)
    /\ \E s \in Sources : Threw(s)
    /\ \E s \in Sources : ~Threw(s)
    /\ ret = None

\* C2: when Yahoo, the first source, produced a valid quote, the pass
\* returns exactly Yahoo's value, whatever the other sources answer.
C2_PrimaryPreferred ==
    (pc = "done" /\ Valid("yahoo")) => ret = Float(Quote("yahoo"))

\* Yahoo and another source both quote validly, with different values
C2_Witness ==
    /\ pc = "done"
    /\ Valid("yahoo")
    /\ \E s \in Sources \ {"yahoo"} : Valid(s) /\ Quote(s) # Quote("yahoo")
    /\ ret = Float(Quote("yahoo"))

\* C3: when Yahoo fails and another source returns a valid quote,
\* the pass returns the median of the valid quotes, the lower middle value
\* for an even number of them.  Stated for the passes in which every price
\* delivered is a valid quote, where no invalid quote can account for a
\* difference.
C3_MedianLaw ==
    (/\ pc = "done"
     /\ ~Delivered("yahoo")
     /\ ValidSources # {}
     /\ \A s \in Sources : Delivered(s) => Valid(s))
        => ret = Float(LowerMedian(ValidSources))

\* C4: a returned price is strictly positive, and a response quoting a
\* price that is not strictly positive never changes what the pass returns:
\* the result is the one the pass gives with those responses failing.
C4_InvalidDiscarded ==
    pc = "done" =>
        /\ ret.some => ret.v > 0
        /\ ret = get_gold_price(DiscardInvalid(resp))

\* C5: no failure of a source leaves get_gold_price as an exception; the
\* pass goes on to the remaining sources and returns the price of the first
\* one that delivers, and returns None only when none delivers.
C5_FailuresNonFatal ==
    /\ ~raised
    /\ pc = "done" =>
        /\ \A s \in Sources : FirstDelivering(s) => ret = Float(Quote(s))
        /\ ret = None => \A s \in Sources : ~Delivered(s)
        /\ \A s \in failed : Threw(s)

\* Yahoo and metals.live raised, goldprice.org delivered and its price was
\* returned
C5_Witness ==
    /\ pc = "done"
    /\ Threw("yahoo")
    /\ Threw("metals")
    /\ Delivered("goldprice")
    /\ failed = {"yahoo", "metals"}
    /\ ret = Float(Quote("goldprice"))

-----------------------------------------------------------------------------
(* Claims about create_signal_and_maybe_alert and run_bot *)

ReportsOn(d) == Cardinality({i \in DOMAIN reportLog : Date(reportLog[i].t) = d})

\* C7: an alert is sent only in a call that obtained a price and whose final
\* confidence is at least 80; it mentions @everyone only if the final
\* confidence is at least 90; a call without a price sends none.
C7_AlertGated ==
    /\ alert # "none" => (sPrice.some /\ finalConf >= 8000)
    /\ ping => (alert # "none" /\ finalConf >= 9000)
    /\ (sigPc = "returned" /\ ~sPrice.some) => (alert = "none" /\ ~recorded)

\* a call returned after sending an alert at a confidence of exactly 80.00,
\* without @everyone
C7_Witness ==
    /\ sigPc = "returned"
    /\ sPrice.some
    /\ alert = "sent"
    /\ ~ping
    /\ finalConf = 8000

\* C8: a call that obtained a price and computed a final confidence of at
\* least 80 has, when it ends, recorded the signal and issued the alert.
C8_AlertIssued ==
    (/\ sigPc \in {"returned", "raised"}
     /\ sPrice.some
     /\ finalConf >= 8000)
        => (recorded /\ alert # "none")

\* C9: the loop hands at most one daily report per date to Discord, only
\* while the hour is 8, and an iteration that ran at hour 8 of a date after
\* the start date leaves that date with exactly one report, whatever the
\* signal step of the iteration did.
C9_DailyReport ==
    /\ \A d \in 0..MaxDay : ReportsOn(d) <= 1
    /\ \A i \in DOMAIN reportLog : Hour(reportLog[i].t) = 8
    /\ (botPc = "sleep" /\ Hour(now) = 8 /\ Date(now) > 0)
          => ReportsOn(Date(now)) = 1

====
